---- MODULE Spec2Model ----
(***************************************************************************)
(* Model of the chimera game-authoring core (chimera/authoring.py) and of  *)
(* the RockPaperScissors game (chimera/examples/rock_paper_scissors.py).   *)
(*                                                                         *)
(* Encoding of Python values:                                              *)
(*   - a Move object is represented by its name (a string);                *)
(*   - None is the string "<None>", which is no move name and differs     *)
(*     from the text "None" that str(None) produces;                       *)
(*   - a Player object is the record [name, id];                           *)
(*   - None as a player id is NoId (-1);                                   *)
(*   - _current_player_id exists in a TurnBasedGame only: it is NoId in    *)
(*     the RockPaperScissors object, which is a TwoPlayerGame;             *)
(*   - the attributes points, history and current_round_moves are None     *)
(*     until on_start: the names of the attributes that are still None     *)
(*     are kept in the set `unset`, and the attribute then holds <<>>.     *)
(* A call is modelled by an operator from the object's state (a record     *)
(* `self`) to a record [self, raised, ret]: the state after the call, the  *)
(* exception raised ("OK" if none), and the returned value.                *)
(***************************************************************************)
EXTENDS Integers, Sequences, FiniteSets, TLC

VARIABLES
    _players,                 \* Game._players: the Player objects, in order
    _state_updated,           \* Game._state_updated
    unset,                    \* attributes of the game that are still None
    points,                   \* RockPaperScissors.points
    history,                  \* RockPaperScissors.history
    current_round_moves,      \* RockPaperScissors.current_round_moves
    current_round_winner_id,  \* RockPaperScissors.current_round_winner_id
    _current_player_id,       \* TurnBasedGame._current_player_id
    last                      \* the most recent call and its outcome

vars == <<_players, _state_updated, unset, points, history,
          current_round_moves, current_round_winner_id, _current_player_id,
          last>>

----------------------------------------------------------------------------
(* Bounds of the model *)

\* play stops being driven once this many rounds are in the history
MaxRounds == 3

\* the same for the long matches, which are played with LongMoveNames only
MaxLongRounds == 5

\* the valid move names sent in the long matches
LongMoveNames == {"rock", "scissors"}

\* names under which players join (unique within a match)
PlayerNames == {"ann", "bob"}

\* move names a client may send that are in no rps table entry
BadNames == {"fire"}

\* variant identifiers handed to get_move_dict_for_game
SubgameIds == {"rps", "rpsls", "rpsx", "RPS"}

\* names under which players join in the set-up phase
SetupNames == {"ann", "bob", "cy", "dee"}

\* identifiers looked up run from -MaxLookup to MaxLookup
MaxLookup == 3

\* a turn-based game takes up to this many players
MaxTurnPlayers == 3

\* in the fair matches at most this many rounds are ties
MaxTies == 1

----------------------------------------------------------------------------
(* Encoding of None *)

None == "<None>"

\* str(x) for the values the snapshot applies it to: None and move names
Str(x) == IF x = None THEN "None" ELSE x

NoId == -1

OptionalAttrs == {"points", "history", "current_round_moves"}

----------------------------------------------------------------------------
(* Move relation: get_move_dict_for_game, Move.beats *)

\* the table built by case "rps": move name -> names in moves_i_beat
RpsMoves ==
    [rock |-> {"scissors"}, paper |-> {"rock"}, scissors |-> {"paper"}]

\* the "rpsls" table with one add_beats call left out (lizard eats paper)
RpslsMoves_short ==
    [rock     |-> {"scissors", "lizard"},
     scissors |-> {"paper", "lizard"},
     paper    |-> {"rock", "spock"},
     lizard   |-> {"spock"},
     spock    |-> {"rock", "scissors"}]

\* the table built by case "rpsls"
RpslsMoves ==
    [rock     |-> {"scissors", "lizard"},
     scissors |-> {"paper", "lizard"},
     paper    |-> {"rock", "spock"},
     lizard   |-> {"spock", "paper"},
     spock    |-> {"rock", "scissors"}]

\* get_move_dict_for_game whose default case falls back to the rps table
get_move_dict_for_game_lenient(subgame_id) ==
    CASE subgame_id = "rpsls" -> [raised |-> "OK", ret |-> RpslsMoves]
      [] OTHER -> [raised |-> "OK", ret |-> RpsMoves]

\* get_move_dict_for_game: the dict name -> Move, here name -> names beaten
get_move_dict_for_game(subgame_id) ==
    CASE subgame_id = "rps"   -> [raised |-> "OK", ret |-> RpsMoves]
      [] subgame_id = "rpsls" -> [raised |-> "OK", ret |-> RpslsMoves]
      [] OTHER -> [raised |-> "IncorrectActionData", ret |-> None]

\* RockPaperScissors.__init__: the hard-wired variant and threshold
subgame_id == "rps"

points_to_win == 3

valid_moves == get_move_dict_for_game(subgame_id).ret

ValidNames == DOMAIN valid_moves

\* Move.beats, evaluated the wrong way round
Beats_reversed(move, opponent_move) == move \in valid_moves[opponent_move]

\* Move.beats, ignoring the table: any different move is beaten
Beats_any(move, opponent_move) == opponent_move # move

\* Move.beats: opponent_move in self.moves_i_beat
Beats(move, opponent_move) == opponent_move \in valid_moves[move]

----------------------------------------------------------------------------
(* TwoPlayerGame *)

min_players == 2

max_players == 2

----------------------------------------------------------------------------
(* The game object as a record, and the queries on it *)

Self ==
    [_players |-> _players,
     _state_updated |-> _state_updated,
     unset |-> unset,
     points |-> points,
     history |-> history,
     current_round_moves |-> current_round_moves,
     current_round_winner_id |-> current_round_winner_id,
     _current_player_id |-> _current_player_id]

Raise(self, exc) == [self |-> self, raised |-> exc, ret |-> None]

Return(self, value) == [self |-> self, raised |-> "OK", ret |-> value]

num_players(self) == Len(self._players)

\* Game.notify_update
notify_update(self) == [self EXCEPT !._state_updated = TRUE]

\* Game._reset_state_updated
reset_state_updated(self) == [self EXCEPT !._state_updated = FALSE]

\* TurnBasedGame.current_player: the list is indexed by the current id
current_player(self) ==
    IF self._current_player_id < num_players(self)
    THEN Return(self, self._players[self._current_player_id + 1])
    ELSE Raise(self, "IndexError")

\* turn_to_next_player that does not wrap around
turn_to_next_player_nowrap(self) ==
    IF num_players(self) = 0
    THEN Raise(self, "ZeroDivisionError")
    ELSE Return([self EXCEPT !._current_player_id = @ + 1], None)

\* TurnBasedGame.turn_to_next_player: `%` by zero players raises
turn_to_next_player(self) ==
    IF num_players(self) = 0
    THEN Raise(self, "ZeroDivisionError")
    ELSE Return([self EXCEPT !._current_player_id =
                                (@ + 1) % num_players(self)], None)

\* TurnBasedGame.is_end_of_round
is_end_of_round(self) ==
    Return(self, self._current_player_id = num_players(self) - 1)

\* get_player_by_id without the test for a negative identifier: a negative
\* index then counts from the end of the list
get_player_by_id_wraps(self, player_id) ==
    IF player_id >= Len(self._players) \/ -player_id > Len(self._players)
    THEN Raise(self, "ValueError")
    ELSE IF player_id < 0
    THEN Return(self, self._players[Len(self._players) + player_id + 1])
    ELSE Return(self, self._players[player_id + 1])

\* Game.get_player_by_id
get_player_by_id(self, player_id) ==
    IF player_id < 0
    THEN Raise(self, "ValueError")
    ELSE IF player_id >= Len(self._players)
    THEN Raise(self, "ValueError")
    ELSE Return(self, self._players[player_id + 1])

\* _add_player giving the new player the length before the append as id
\* plus one, i.e. `player.id = len(self._players)` after the append
add_player_len(self, name) ==
    [self EXCEPT !._players =
        Append(@, [name |-> name, id |-> Len(self._players) + 1])]

\* Game._create_player and Game._add_player: the new Player (id None until
\* added) is appended and gets id = len(self._players) - 1
add_player(self, name) ==
    [self EXCEPT !._players =
        Append(@, [name |-> name, id |-> (Len(self._players) + 1) - 1])]

\* the backend lets a player join only while the match is not full
JoinAllowed_always(self) == TRUE

\* the backend "will not allow more than these many players to join"
JoinAllowed(self) == num_players(self) < max_players

\* `threshold in self.points` written as "some score above the threshold"
InPoints_above(threshold, pts) == \E i \in 1..Len(pts) : pts[i] > threshold

\* `threshold in self.points`
InPoints(threshold, pts) == \E i \in 1..Len(pts) : pts[i] = threshold

\* done without the assertion of line 290
done_unasserted(self) ==
    Return(self, InPoints(points_to_win, self.points))

\* RockPaperScissors.done
done(self) ==
    IF "points" \in self.unset
    THEN Raise(self, "AssertionError")
    ELSE Return(self, InPoints(points_to_win, self.points))

\* RockPaperScissors.winner with the two comparisons exchanged
winner_swapped(self) ==
    LET d == done(self) IN
    IF d.raised # "OK" THEN d
    ELSE IF d.ret
         THEN IF self.points[1] < self.points[2] THEN Return(self, 0)
              ELSE IF self.points[1] > self.points[2] THEN Return(self, 1)
              ELSE Return(self, NoId)
         ELSE Return(self, NoId)

\* RockPaperScissors.winner: the id of the returned player, NoId for None
winner(self) ==
    LET d == done(self) IN
    IF d.raised # "OK" THEN d
    ELSE IF d.ret
         THEN IF self.points[1] > self.points[2] THEN Return(self, 0)
              ELSE IF self.points[1] < self.points[2] THEN Return(self, 1)
              ELSE Return(self, NoId)
         ELSE Return(self, NoId)

----------------------------------------------------------------------------
(* RockPaperScissors: the operations *)

\* on_start that starts every score at 1
on_start_head_start(self) ==
    Return([self EXCEPT !.points = [i \in 1..max_players |-> 1],
                        !.history = << >>,
                        !.current_round_moves = <<None, None>>,
                        !.unset = {}], None)

\* on_start that also notifies (the call the source leaves commented out)
on_start_notifying(self) ==
    Return([self EXCEPT !.points = [i \in 1..max_players |-> 0],
                        !.history = << >>,
                        !.current_round_moves = <<None, None>>,
                        !.unset = {},
                        !._state_updated = TRUE], None)

\* RockPaperScissors.on_start
on_start(self) ==
    Return([self EXCEPT !.points = [i \in 1..max_players |-> 0],
                        !.history = << >>,
                        !.current_round_moves = <<None, None>>,
                        !.unset = {}], None)

\* current_round_over that never reports a complete round
current_round_over_never(self) == FALSE

\* RockPaperScissors.current_round_over (called with the moves set)
current_round_over(self) ==
    \A i \in 1..Len(self.current_round_moves) :
        self.current_round_moves[i] # None

\* get_move_from_player_data that hands back any name it is given
get_move_from_player_data_unchecked(self, player_move_string) ==
    Return(self, player_move_string)

\* RockPaperScissors.get_move_from_player_data
get_move_from_player_data(self, player_move_string) ==
    IF player_move_string \notin DOMAIN valid_moves
    THEN Raise(self, "IncorrectMove")
    ELSE Return(self, player_move_string)

\* the check of line 420 that lets a recorded move be replaced
HasRecordedMove_never(self, player_id) == FALSE

\* play_move: `recorded_player_move is not None`
HasRecordedMove(self, player_id) ==
    self.current_round_moves[player_id + 1] # None

\* recording the move in the first free slot instead of the player's own
RecordMove_first_free(self, player_id, player_move) ==
    LET free == CHOOSE i \in 1..Len(self.current_round_moves) :
                    /\ self.current_round_moves[i] = None
                    /\ \A j \in 1..(i - 1) : self.current_round_moves[j] # None
    IN  [self EXCEPT !.current_round_moves[free] = player_move]

\* play_move: self.current_round_moves[player_id] = player_move
RecordMove(self, player_id, player_move) ==
    [self EXCEPT !.current_round_moves[player_id + 1] = player_move]

\* the winner of a complete round: the id of the player whose move beats
\* the other's, NoId when neither beats the other
RoundWinner(move_0, move_1) ==
    IF Beats(move_0, move_1) THEN 0
    ELSE IF Beats(move_1, move_0) THEN 1
    ELSE NoId

\* process_current_round (called by play_move when the round is over):
\* decide the winner, add 1 to the winner's score on a decisive round,
\* append <<move of player 0, move of player 1, winner id or none>> to the
\* history, and clear both slots for the next round.  Nothing else is
\* assigned: current_round_winner_id keeps its value.
process_current_round(self) ==
    LET move_0 == self.current_round_moves[1]
        move_1 == self.current_round_moves[2]
        w      == RoundWinner(move_0, move_1)
        scored == IF w = NoId THEN self.points
                  ELSE [self.points EXCEPT ![w + 1] = @ + 1]
    IN  [self EXCEPT !.points = scored,
                     !.history = Append(@, <<move_0, move_1, w>>),
                     !.current_round_moves = <<None, None>>]

\* RockPaperScissors.play_move
play_move(self, player_id, player_move) ==
    IF "current_round_moves" \in self.unset
    THEN Raise(self, "AssertionError")
    ELSE IF HasRecordedMove(self, player_id)
    THEN Raise(self, "NotPlayerTurn")
    ELSE LET recorded == RecordMove(self, player_id, player_move) IN
         IF ~current_round_over(recorded)
         THEN Return(recorded, player_move)
         ELSE Return(notify_update(process_current_round(recorded)),
                     player_move)

\* action_move with the turn check made before the move name is resolved
action_move_turn_first(self, player_id, data) ==
    IF "current_round_moves" \notin self.unset
          /\ HasRecordedMove(self, player_id)
    THEN Raise(self, "NotPlayerTurn")
    ELSE LET m == get_move_from_player_data(self, data) IN
         IF m.raised # "OK" THEN m
         ELSE play_move(self, player_id, m.ret)

\* RockPaperScissors.action_move
action_move(self, player_id, data) ==
    LET m == get_move_from_player_data(self, data) IN
    IF m.raised # "OK" THEN m
    ELSE play_move(self, player_id, m.ret)

----------------------------------------------------------------------------
(* RockPaperScissors.game_state: the snapshot.  A dict keyed by player    *)
(* names is a function on the set of names; a list is a sequence.          *)

\* RockPaperScissors.VALID_SUBGAME_IDS
VALID_SUBGAME_IDS ==
    [rps |-> "standard rock paper scissors",
     rpsls |-> "rock paper scissors lizard spock"]

\* {name: value for name, value in zip(player_names, values)}
ZipDict(player_names, values) ==
    LET n == IF Len(player_names) < Len(values)
             THEN Len(player_names) ELSE Len(values)
    IN  [name \in {player_names[i] : i \in 1..n} |->
            values[CHOOSE i \in 1..n :
                      /\ player_names[i] = name
                      /\ \A j \in (i + 1)..n : player_names[j] # name]]

\* player_names[optional_id], None when the id is None
NameOrNone(player_names, optional_id) ==
    IF optional_id = NoId THEN None ELSE player_names[optional_id + 1]

\* RockPaperScissors.get_game_type_for_game_state
get_game_type_for_game_state(self) ==
    [id |-> subgame_id, description |-> VALID_SUBGAME_IDS[subgame_id]]

\* RockPaperScissors.get_current_round_for_game_state
get_current_round_for_game_state(self, player_names) ==
    [moves |-> ZipDict(player_names,
                       [i \in 1..Len(self.current_round_moves) |->
                           IF self.current_round_moves[i] # None
                           THEN self.current_round_moves[i]
                           ELSE Str(None)]),
     winner |-> NameOrNone(player_names, self.current_round_winner_id)]

\* get_points_for_game_state pairing the names with the scores back to front
get_points_for_game_state_reversed(self, player_names) ==
    ZipDict(player_names,
            [i \in 1..Len(self.points) |->
                self.points[Len(self.points) + 1 - i]])

\* RockPaperScissors.get_points_for_game_state
get_points_for_game_state(self, player_names) ==
    ZipDict(player_names, self.points)

\* RockPaperScissors.get_history_list_for_game_state
get_history_list_for_game_state(self, player_names) ==
    [i \in 1..Len(self.history) |->
        [moves |-> ZipDict(player_names,
                           <<self.history[i][1], self.history[i][2]>>),
         winner |-> NameOrNone(player_names, self.history[i][3])]]

\* RockPaperScissors.game_state
game_state(self) ==
    IF \E a \in OptionalAttrs : a \in self.unset
    THEN Raise(self, "AssertionError")
    ELSE LET p0 == get_player_by_id(self, 0)
             p1 == get_player_by_id(self, 1)
         IN  IF p0.raised # "OK" THEN p0
             ELSE IF p1.raised # "OK" THEN p1
             ELSE LET player_names == <<p0.ret.name, p1.ret.name>> IN
                  Return(self,
                    [game_type |-> get_game_type_for_game_state(self),
                     current_round |->
                        get_current_round_for_game_state(self, player_names),
                     points |-> get_points_for_game_state(self, player_names),
                     history |->
                        get_history_list_for_game_state(self, player_names)])

----------------------------------------------------------------------------
(* The state machine: one action per call on the game object *)

\* what a call hands back, as a record with one field named after the
\* kind of value: nothing when the call raised or returns None
Result(op, r) ==
    IF r.raised # "OK" THEN [none |-> None]
    ELSE CASE op = "action_move"            -> [move |-> r.ret]
           [] op = "done"                   -> [bool |-> r.ret]
           [] op = "winner"                 -> [id |-> r.ret]
           [] op = "get_player_by_id"       -> [player |-> r.ret]
           [] op = "get_move_dict_for_game" -> [moves |-> r.ret]
           [] op = "game_state"             -> [state |-> r.ret]
           [] op = "is_end_of_round"        -> [bool |-> r.ret]
           [] op = "current_player"         -> [player |-> r.ret]
           [] OTHER                         -> [none |-> None]

Call(op, player_id, data, r) ==
    [op |-> op, player |-> player_id, data |-> data,
     raised |-> r.raised, ret |-> Result(op, r)]

\* the state of the object becomes r.self, and the call is remembered
Becomes(op, player_id, data, r) ==
    /\ _players' = r.self._players
    /\ _state_updated' = r.self._state_updated
    /\ unset' = r.self.unset
    /\ points' = r.self.points
    /\ history' = r.self.history
    /\ current_round_moves' = r.self.current_round_moves
    /\ current_round_winner_id' = r.self.current_round_winner_id
    /\ _current_player_id' = r.self._current_player_id
    /\ last' = Call(op, player_id, data, r)

Started == unset = {}

\* Game.__init__ and the attributes of the game before on_start
InitGame ==
    /\ _players = << >>
    /\ _state_updated = FALSE
    /\ unset = OptionalAttrs
    /\ points = << >>
    /\ history = << >>
    /\ current_round_moves = << >>
    /\ current_round_winner_id = NoId
    /\ last = [op |-> "init", player |-> NoId, data |-> None,
               raised |-> "OK", ret |-> [none |-> None]]

\* Game.__init__, TwoPlayerGame.__init__, RockPaperScissors.__init__
Init ==
    /\ InitGame
    /\ _current_player_id = NoId

\* the backend adds a player: names are unique in a match, no more than
\* max_players join, and all have joined before on_start
AddPlayerFrom(names) ==
    \E name \in names :
        /\ ~Started
        /\ JoinAllowed(Self)
        /\ \A i \in 1..Len(_players) : _players[i].name # name
        /\ Becomes("_add_player", NoId, name,
                   Return(add_player(Self, name), None))

AddPlayer == AddPlayerFrom(PlayerNames)

\* the backend starts the match once, when the players have joined
OnStart ==
    /\ ~Started
    /\ num_players(Self) >= min_players
    /\ Becomes("on_start", NoId, None, on_start(Self))

\* a player sends the "move" action with some string as data
ActionMoveWith(names, max_rounds) ==
    \E k \in 1..Len(_players) :
        \E data \in names :
            /\ Len(history) < max_rounds
            /\ Becomes("action_move", _players[k].id, data,
                       action_move(Self, _players[k].id, data))

ActionMove == ActionMoveWith(ValidNames \cup BadNames, MaxRounds)

\* the backend has sent the notification and clears the flag
ResetStateUpdated ==
    /\ _state_updated
    /\ Becomes("_reset_state_updated", NoId, None,
               Return(reset_state_updated(Self), None))

\* the backend reads the completion predicate
QueryDone ==
    Becomes("done", NoId, None, done(Self))

\* the backend reads the winner
QueryWinner ==
    Becomes("winner", NoId, None, winner(Self))

\* the backend reads the snapshot
QueryGameState ==
    Becomes("game_state", NoId, None, game_state(Self))

Next ==
    \/ AddPlayer
    \/ OnStart
    \/ ActionMove
    \/ ResetStateUpdated
    \/ QueryDone
    \/ QueryWinner
    \/ QueryGameState

Spec == Init /\ [][Next]_vars

----------------------------------------------------------------------------
(* Long matches: the same calls, with the moves sent restricted to        *)
(* LongMoveNames so that matches of MaxLongRounds rounds, which go on      *)
(* after a score has reached points_to_win, stay within reach.             *)

LongActionMove == ActionMoveWith(LongMoveNames \cup BadNames, MaxLongRounds)

LongNext ==
    \/ AddPlayer
    \/ OnStart
    \/ LongActionMove
    \/ ResetStateUpdated
    \/ QueryDone
    \/ QueryWinner
    \/ QueryGameState

LongSpec == Init /\ [][LongNext]_vars

----------------------------------------------------------------------------
(* The set-up phase on its own: the move table is built, players join and *)
(* are looked up; the match is not started.                                *)

SetupAddPlayer == AddPlayerFrom(SetupNames)

\* a caller looks a player up by identifier
GetPlayerById ==
    \E player_id \in (-MaxLookup)..MaxLookup :
        Becomes("get_player_by_id", player_id, None,
                get_player_by_id(Self, player_id))

\* the constructor's call of get_move_dict_for_game, for any identifier
BuildMoves ==
    \E id \in SubgameIds :
        LET r == get_move_dict_for_game(id) IN
        Becomes("get_move_dict_for_game", NoId, id,
                [self |-> Self, raised |-> r.raised, ret |-> r.ret])

SetupNext ==
    \/ SetupAddPlayer
    \/ GetPlayerById
    \/ BuildMoves

SetupSpec == Init /\ [][SetupNext]_vars

----------------------------------------------------------------------------
(* A turn-based game (TurnBasedGame): players join, the turn is passed on, *)
(* and the turn and the round boundary are read.                           *)

\* Game.__init__, TurnBasedGame.__init__
TurnInit ==
    /\ InitGame
    /\ _current_player_id = 0

\* the backend adds a player to the turn-based game
TurnAddPlayer ==
    \E name \in SetupNames :
        /\ num_players(Self) < MaxTurnPlayers
        /\ \A i \in 1..Len(_players) : _players[i].name # name
        /\ Becomes("_add_player", NoId, name,
                   Return(add_player(Self, name), None))

TurnToNextPlayer ==
    Becomes("turn_to_next_player", NoId, None, turn_to_next_player(Self))

QueryIsEndOfRound ==
    Becomes("is_end_of_round", NoId, None, is_end_of_round(Self))

QueryCurrentPlayer ==
    Becomes("current_player", NoId, None, current_player(Self))

TurnNext ==
    \/ TurnAddPlayer
    \/ TurnToNextPlayer
    \/ QueryIsEndOfRound
    \/ QueryCurrentPlayer

TurnSpec == TurnInit /\ [][TurnNext]_vars

----------------------------------------------------------------------------
(* Type invariant *)

TypeOK ==
    /\ _state_updated \in BOOLEAN
    /\ unset \in {OptionalAttrs, {}}
    /\ Len(_players) <= max_players
    /\ Started => /\ Len(points) = max_players
                  /\ Len(current_round_moves) = 2
                  /\ \A i \in 1..2 :
                        current_round_moves[i] \in ValidNames \cup {None}

----------------------------------------------------------------------------
(* Vocabulary of the properties.  The primed `last` names the call that a  *)
(* step performs; the unprimed variables are the state it was made in.     *)

DoneNow == Started /\ done(Self).ret

WinnerNow == winner(Self).ret

\* the step is a call of action_move
Submits == last'.op = "action_move"

\* the slot of the player who is not the caller, before the call
OtherSlot == current_round_moves[2 - last'.player]

\* the slot of the caller, before the call
OwnSlot == current_round_moves[last'.player + 1]

\* the step is an accepted submission that fills the second slot
CompletesRound ==
    /\ Started
    /\ Submits
    /\ last'.raised = "OK"
    /\ OtherSlot # None

\* the two moves of the round a completing step closes
StepMove0 == IF last'.player = 0 THEN last'.data ELSE current_round_moves[1]

StepMove1 == IF last'.player = 1 THEN last'.data ELSE current_round_moves[2]

\* the winner the move table of the variant gives for two moves
TableWinner(m0, m1) ==
    IF m1 \in valid_moves[m0] THEN 0
    ELSE IF m0 \in valid_moves[m1] THEN 1
    ELSE NoId

\* the state: the last call was a submission that resolved a round
JustResolved ==
    /\ Started
    /\ last.op = "action_move"
    /\ last.raised = "OK"
    /\ current_round_moves = <<None, None>>
    /\ Len(history) > 0

LastEntry == history[Len(history)]

----------------------------------------------------------------------------
(* C1..C10 *)

C2_RejectedWhenDone ==
    [][(DoneNow /\ Submits /\ last'.data \in ValidNames)
        => /\ last'.raised = "NotPlayerTurn"
           /\ UNCHANGED <<current_round_moves, points, history>>]_vars

\* C3: an accepted submission that fills the second slot appends, in the
\* same call, the round <<move of player 0, move of player 1, winner>>,
\* where player 0 wins iff its move beats player 1's in the variant's
\* table, player 1 wins iff its move beats player 0's, and otherwise
\* (identical moves included) there is no winner.
C3_RoundOutcome ==
    [][CompletesRound
        => /\ Len(history') = Len(history) + 1
           /\ history'[Len(history')][1] = StepMove0
           /\ history'[Len(history')][2] = StepMove1
           /\ (history'[Len(history')][3] = 0
                  <=> StepMove1 \in valid_moves[StepMove0])
           /\ (history'[Len(history')][3] = 1
                  <=> StepMove0 \in valid_moves[StepMove1])
           /\ (StepMove0 = StepMove1 => history'[Len(history')][3] = NoId)
           /\ history'[Len(history')][3] \in {0, 1, NoId}]_vars

C3_Witness ==
    /\ JustResolved
    /\ LastEntry[1] = LastEntry[2]
    /\ LastEntry[3] = NoId

\* C4: after on_start no score ever decreases, and the scores change only
\* in a step that completes a round: a round with a winner adds exactly 1
\* to the winner's score and leaves the loser's, a tie leaves both.
C4_ScoresMonotone ==
    [][Started
        => /\ \A i \in 1..Len(points) : points'[i] >= points[i]
           /\ (~CompletesRound => points' = points)
           /\ (CompletesRound =>
                 LET w == TableWinner(StepMove0, StepMove1) IN
                 IF w = NoId THEN points' = points
                 ELSE points' = [points EXCEPT ![w + 1] = @ + 1])]_vars

C4_Witness ==
    /\ JustResolved
    /\ LastEntry[3] = 1
    /\ points[2] = 2
    /\ points[1] = 1

\* C5: the history is append-only: every step after on_start keeps the
\* previous history as a prefix, and the length grows by exactly 1 in a
\* step that completes a round and by 0 in every other step.
C5_HistoryAppendOnly ==
    [][Started
        => /\ Len(history') >= Len(history)
           /\ SubSeq(history', 1, Len(history)) = history
           /\ Len(history') = Len(history) + (IF CompletesRound THEN 1 ELSE 0)
       ]_vars

C5_Witness ==
    /\ JustResolved
    /\ Len(history) = 2
    /\ history[1][3] = NoId
    /\ history[2][3] = 0

\* C6: done, once true, stays true after every later operation, and it
\* becomes true only in a step that completes a round and brings a score
\* to the threshold.
C6_DoneStable ==
    [][/\ DoneNow => DoneNow'
       /\ (Started /\ ~DoneNow /\ DoneNow')
             => /\ CompletesRound
                /\ \E i \in 1..Len(points) :
                      points[i] < points_to_win /\ points'[i] = points_to_win
      ]_vars

\* C7: a submission of a name that is not in the variant's move table
\* fails with IncorrectMove and leaves both slots, the points, the history
\* and the state-changed flag unchanged.
C7_InvalidMoveRejected ==
    [][(Submits /\ last'.data \notin ValidNames)
        => /\ last'.raised = "IncorrectMove"
           /\ UNCHANGED <<current_round_moves, points, history,
                          _state_updated>>]_vars

C7_Witness ==
    /\ Started
    /\ last.op = "action_move"
    /\ last.data = "fire"
    /\ last.raised = "IncorrectMove"
    /\ \E i \in 1..2 : current_round_moves[i] # None

\* C8: a step raises the state-changed flag exactly when it completes a
\* round: a completing submission leaves the flag raised, and no other
\* call than the backend's reset (a first submission, a rejected
\* submission, on_start, a query) changes the flag.
C8_NotifyOnlyOnResolve ==
    [][/\ CompletesRound => _state_updated'
       /\ (~CompletesRound /\ last'.op # "_reset_state_updated")
             => _state_updated' = _state_updated]_vars

C8_Witness ==
    /\ JustResolved
    /\ _state_updated
    /\ Len(history) = 2
    /\ history[1][3] = 1

\* C9: from a state with both slots unset, player 0 submitting x and then
\* player 1 submitting y ends in the same points, history and current
\* round as player 1 submitting y and then player 0 submitting x, for all
\* valid moves x and y; both orders are accepted and close one round.
C9_OrderIndependent ==
    (Started /\ current_round_moves = <<None, None>>)
        => \A x \in ValidNames : \A y \in ValidNames :
             LET a == action_move(action_move(Self, 0, x).self, 1, y)
                 b == action_move(action_move(Self, 1, y).self, 0, x)
             IN  /\ a.raised = "OK"
                 /\ b.raised = "OK"
                 /\ a.self.points = b.self.points
                 /\ a.self.history = b.self.history
                 /\ Len(a.self.history) = Len(history) + 1
                 /\ a.self.history[Len(history) + 1][1] = x
                 /\ a.self.history[Len(history) + 1][2] = y
                 /\ a.self.current_round_moves = b.self.current_round_moves
                 /\ a.self.current_round_winner_id
                        = b.self.current_round_winner_id

C9_Witness ==
    /\ JustResolved
    /\ last.player = 0
    /\ LastEntry[1] = "paper"
    /\ LastEntry[2] = "scissors"
    /\ LastEntry[3] = 1

\* C10: after three rounds in which player 0 played rock and player 1
\* scissors, the points are 3 and 0, done is true, the winner is player 0
\* and each of the 3 history entries has player 0 as winner.
ThreeRockScissors ==
    /\ Started
    /\ Len(history) = 3
    /\ \A i \in 1..3 : history[i][1] = "rock" /\ history[i][2] = "scissors"

C10_EndToEnd ==
    ThreeRockScissors
        => /\ points = <<3, 0>>
           /\ DoneNow
           /\ WinnerNow = 0
           /\ \A i \in 1..3 : history[i][3] = 0

C10_Witness ==
    /\ ThreeRockScissors
    /\ current_round_moves = <<None, None>>
    /\ WinnerNow = 0

----------------------------------------------------------------------------
(* C11..C20 *)

\* C11: after on_start, done is true iff some player's score equals the win
\* threshold; winner is no-winner when done is false, and when done is true
\* it is the player with the strictly higher score, or no-winner if the two
\* scores are equal.
C11_DoneAndWinner ==
    Started
        => /\ DoneNow <=> (points[1] = points_to_win
                              \/ points[2] = points_to_win)
           /\ ~DoneNow => WinnerNow = NoId
           /\ DoneNow => /\ points[1] > points[2] => WinnerNow = 0
                         /\ points[1] < points[2] => WinnerNow = 1
                         /\ points[1] = points[2] => WinnerNow = NoId

C11_Witness ==
    /\ DoneNow
    /\ WinnerNow = 1
    /\ points[1] = 1

\* the current round is open: at most one of the two slots holds a move
RoundOpen == \E i \in 1..2 : current_round_moves[i] = None

\* C12: in every state after on_start at most one of the two slots of the
\* current round is set, and an accepted submission that fills the second
\* slot leaves both slots unset.
C12_RoundStaysOpen ==
    [][/\ Started' => RoundOpen'
       /\ CompletesRound => current_round_moves' = <<None, None>>]_vars

C12_Witness ==
    /\ JustResolved
    /\ Len(history) = 1
    /\ last.player = 1
    /\ LastEntry = <<"rock", "scissors", 0>>

\* C13: an accepted submission made while the other player's slot is unset
\* changes only the caller's slot: the points, the history, done, the other
\* slot and the state-changed flag stay as they were; and the history grows
\* only in a step in which the other player's slot was already filled.
C13_FirstSubmissionFrame ==
    [][/\ (Started /\ Submits /\ last'.raised = "OK" /\ OtherSlot = None)
            => /\ current_round_moves'
                    = [current_round_moves
                          EXCEPT ![last'.player + 1] = last'.data]
               /\ points' = points
               /\ history' = history
               /\ DoneNow' = DoneNow
               /\ _state_updated' = _state_updated
               /\ current_round_winner_id' = current_round_winner_id
       /\ (Started /\ Len(history') > Len(history))
            => (Submits /\ OtherSlot # None)]_vars

C13_Witness ==
    /\ Started
    /\ last.op = "action_move"
    /\ last.raised = "OK"
    /\ current_round_moves[last.player + 1] = last.data
    /\ current_round_moves[2 - last.player] = None
    /\ Len(history) = 1

SupportedIds == {"rps", "rpsls"}

\* the last call built a move table
Built == last.op = "get_move_dict_for_game"

\* C14: for each supported variant identifier the table is built, no move
\* beats itself, every move beats only moves of the table, and every move
\* beats exactly 1 other move in "rps" and exactly 2 in "rpsls".
C14_RelationShape ==
    (Built /\ last.data \in SupportedIds)
        => /\ last.raised = "OK"
           /\ Cardinality(DOMAIN last.ret.moves)
                 = (IF last.data = "rps" THEN 3 ELSE 5)
           /\ \A m \in DOMAIN last.ret.moves :
                /\ m \notin last.ret.moves[m]
                /\ last.ret.moves[m] \subseteq DOMAIN last.ret.moves
                /\ Cardinality(last.ret.moves[m])
                      = (IF last.data = "rps" THEN 1 ELSE 2)

C14_Witness ==
    /\ Built
    /\ last.data = "rpsls"
    /\ last.raised = "OK"
    /\ "lizard" \in DOMAIN last.ret.moves

\* C15: building the move relation for an identifier other than "rps" and
\* "rpsls" fails with IncorrectActionData and returns no table.
C15_UnknownVariantRejected ==
    (Built /\ last.data \notin SupportedIds)
        => /\ last.raised = "IncorrectActionData"
           /\ last.ret = [none |-> None]

C15_Witness ==
    /\ Built
    /\ last.data = "rpsx"
    /\ last.raised = "IncorrectActionData"

\* C16: the player stored at registry position i has id i, so the ids are
\* 0..num_players-1 in join order, and a step never removes a player nor
\* changes a player that was added earlier.
C16_ContiguousIds ==
    [][/\ \A i \in 1..Len(_players') : _players'[i].id = i - 1
       /\ Len(_players') >= Len(_players)
       /\ \A i \in 1..Len(_players) : _players'[i] = _players[i]]_vars

C16_Witness ==
    /\ last.op = "_add_player"
    /\ Len(_players) = 2
    /\ _players[1].id = 0
    /\ _players[2].id = 1
    /\ _players[2].name = last.data

C18_LookupById ==
    [][last'.op = "get_player_by_id"
        => /\ _players' = _players
           /\ IF 0 <= last'.player /\ last'.player < num_players(Self)
              THEN /\ last'.raised = "OK"
                   /\ last'.ret.player.id = last'.player
                   /\ \E k \in 1..Len(_players) :
                         _players[k] = last'.ret.player
              ELSE last'.raised = "ValueError"]_vars

C18_Witness ==
    /\ last.op = "get_player_by_id"
    /\ last.player = -1
    /\ last.raised = "ValueError"
    /\ Len(_players) = 2

\* C19: before on_start, reading game_state or done aborts with an
\* AssertionError, which is none of NotPlayerTurn, IncorrectMove and
\* IncorrectActionData, and changes no state.
C19_SnapshotBeforeStart ==
    [][(~Started /\ last'.op \in {"game_state", "done"})
        => /\ last'.raised = "AssertionError"
           /\ last'.raised \notin {"NotPlayerTurn", "IncorrectMove",
                                   "IncorrectActionData"}
           /\ UNCHANGED <<_players, _state_updated, unset, points, history,
                          current_round_moves, current_round_winner_id>>
      ]_vars

C19_Witness ==
    /\ ~Started
    /\ last.op = "game_state"
    /\ last.raised = "AssertionError"
    /\ Len(_players) = 2

\* the name of the player with identifier id
NameOf(id) == _players[id + 1].name

----------------------------------------------------------------------------
(* C21..C27 *)

\* C21: immediately after on_start every player's score is 0, the history
\* is empty, both current-round slots are unset, done is false, winner is
\* no-winner and the state-changed flag is not raised; before on_start the
\* points, the history and the current-round storage are all unset.
C21_InitialState ==
    [][/\ ~Started => unset = OptionalAttrs
       /\ last'.op = "on_start"
            => /\ Started'
               /\ Len(points') = num_players(Self)
               /\ \A i \in 1..Len(points') : points'[i] = 0
               /\ history' = << >>
               /\ current_round_moves' = <<None, None>>
               /\ ~DoneNow'
               /\ WinnerNow' = NoId
               /\ ~_state_updated']_vars

C21_Witness ==
    /\ last.op = "on_start"
    /\ Started
    /\ points = <<0, 0>>
    /\ ~DoneNow

\* the current player id after k calls of turn_to_next_player (k >= 0,
\* with at least one player)
RECURSIVE TurnsFrom(_, _)
TurnsFrom(self, k) ==
    IF k = 0 THEN self._current_player_id
    ELSE TurnsFrom(turn_to_next_player(self).self, k - 1)

\* C22: in a turn-based game with n >= 1 players the current player id
\* starts at 0 (it is 0 after construction and only turn_to_next_player
\* changes it), stays within [0, n), each turn_to_next_player call moves it
\* to (id + 1) mod n, so that n calls return to the same player, and
\* is_end_of_round is true exactly when the current player id is n - 1.
C22_RoundRobin ==
    [][LET n == num_players(Self) IN
       /\ last.op = "init" => _current_player_id = 0
       /\ last'.op # "turn_to_next_player"
            => _current_player_id' = _current_player_id
       /\ n >= 1 =>
            /\ _current_player_id \in 0..(n - 1)
            /\ is_end_of_round(Self).ret = (_current_player_id = n - 1)
            /\ TurnsFrom(Self, n) = _current_player_id
            /\ last'.op = "turn_to_next_player"
                 => /\ last'.raised = "OK"
                    /\ _current_player_id' = (_current_player_id + 1) % n
                    /\ _current_player_id' \in 0..(n - 1)
                    /\ _players' = _players]_vars

C22_Witness ==
    /\ num_players(Self) = 3
    /\ last.op = "turn_to_next_player"
    /\ last.raised = "OK"
    /\ _current_player_id = 0

\* C23: the move name is validated before the turn is checked: when a
\* player who already has a move recorded in the open round submits a name
\* that is no valid move, the failure is IncorrectMove, not NotPlayerTurn,
\* and the recorded move is unchanged.
C23_ValidationFirst ==
    [][(Started /\ Submits /\ OwnSlot # None /\ last'.data \notin ValidNames)
        => /\ last'.raised = "IncorrectMove"
           /\ last'.raised # "NotPlayerTurn"
           /\ current_round_moves'[last'.player + 1] = OwnSlot]_vars

C23_Witness ==
    /\ Started
    /\ last.op = "action_move"
    /\ last.data \notin ValidNames
    /\ last.raised = "IncorrectMove"
    /\ current_round_moves[last.player + 1] = "rock"

\* the history entries that name player id as the winner
RoundsWonBy(id) == {k \in 1..Len(history) : history[k][3] = id}

\* the history entries that have a winner
DecisiveRounds == {k \in 1..Len(history) : history[k][3] # NoId}

\* C24: in every state after on_start the sum of the two scores equals the
\* number of history entries that have a winner, each player's score equals
\* the number of history entries naming that player as the winner, and the
\* total score does not exceed the history length.
C24_ScoresMatchHistory ==
    Started
        => /\ points[1] + points[2] = Cardinality(DecisiveRounds)
           /\ \A id \in 0..1 : points[id + 1] = Cardinality(RoundsWonBy(id))
           /\ points[1] + points[2] <= Len(history)

C24_Witness ==
    /\ Started
    /\ Len(history) = 4
    /\ points = <<2, 1>>
    /\ history[2][3] = NoId

\* Move.beats on the moves a and b of the table t
BeatsIn(t, a, b) == b \in t[a]

\* the winner of a round with move a of player 0 and move b of player 1
WinnerIn(t, a, b) ==
    IF BeatsIn(t, a, b) THEN 0
    ELSE IF BeatsIn(t, b, a) THEN 1
    ELSE NoId

\* C25: in both variant tables the beats relation is a tournament: of every
\* two distinct moves exactly one beats the other (never both, never
\* neither), so a round is a tie if and only if the two moves are the same.
C25_Tournament ==
    (Built /\ last.data \in SupportedIds)
        => /\ last.raised = "OK"
           /\ \A a \in DOMAIN last.ret.moves :
                \A b \in DOMAIN last.ret.moves :
                    /\ a # b => (BeatsIn(last.ret.moves, a, b)
                                    # BeatsIn(last.ret.moves, b, a))
                    /\ (WinnerIn(last.ret.moves, a, b) = NoId) <=> (a = b)

C25_Witness ==
    /\ Built
    /\ last.data = "rpsls"
    /\ last.raised = "OK"
    /\ BeatsIn(last.ret.moves, "lizard", "paper")
    /\ ~BeatsIn(last.ret.moves, "paper", "lizard")
    /\ WinnerIn(last.ret.moves, "spock", "spock") = NoId

----------------------------------------------------------------------------
(* Fair matches: after on_start each player submits a valid move whenever  *)
(* the player's slot is unset, at most MaxTies rounds are ties, and play   *)
(* is followed for MaxTies + 2 * points_to_win - 1 rounds.                 *)

FairRounds == MaxTies + 2 * points_to_win - 1

TiesSoFar == Len(history) - Cardinality(DecisiveRounds)

\* the player at position k of the list submits a valid move, the slot of
\* that player being unset
SubmitWhenUnset(k) ==
    /\ Started
    /\ k <= Len(_players)
    /\ Len(history) < FairRounds
    /\ current_round_moves[_players[k].id + 1] = None
    /\ \E data \in LongMoveNames :
          /\ LET other == current_round_moves[2 - _players[k].id] IN
             (other # None /\ TableWinner(data, other) = NoId)
                => TiesSoFar < MaxTies
          /\ Becomes("action_move", _players[k].id, data,
                     action_move(Self, _players[k].id, data))

FairSubmit == \E k \in 1..max_players : SubmitWhenUnset(k)

FairNext ==
    \/ AddPlayer
    \/ OnStart
    \/ FairSubmit

FairSpec ==
    /\ Init
    /\ [][FairNext]_vars
    /\ \A k \in 1..max_players : WF_vars(SubmitWhenUnset(k))

\* C26: in every state in which done is true, exactly one player's score
\* equals the win threshold, no score exceeds the threshold, and winner is
\* that player (never no-winner).
C26_DoneHasOneWinner ==
    DoneNow
        => /\ Cardinality({i \in 1..2 : points[i] = points_to_win}) = 1
           /\ \A i \in 1..2 : points[i] <= points_to_win
           /\ WinnerNow # NoId
           /\ points[WinnerNow + 1] = points_to_win

\* the scores after the first k rounds of the history reach the threshold
DoneAfter(k) ==
    \E id \in 0..1 :
        Cardinality({j \in 1..k : history[j][3] = id}) = points_to_win

\* done has been true after some round played so far
EverDone == \E k \in 0..Len(history) : DoneAfter(k)

\* C27: if after on_start both players keep submitting valid moves
\* whenever their slot is unset and only finitely many rounds are ties,
\* then done eventually becomes true, and it has been true by the time
\* 2 * points_to_win - 1 = 5 decisive rounds have been resolved.
C27_EventuallyDone ==
    /\ (last.op = "on_start") ~> DoneNow
    /\ [](Cardinality(DecisiveRounds) >= 2 * points_to_win - 1 => EverDone)

C27_Witness ==
    /\ DoneNow
    /\ TiesSoFar = 1
    /\ Cardinality(DecisiveRounds) = 2 * points_to_win - 1
    /\ points = <<2, 3>>

====
